---- MODULE Spec2Model ----
(***************************************************************************)
(* Change detection and snapshot reconciliation of the listing scraper.    *)
(*                                                                         *)
(*   Strategy B  backend/database.py   Database.insert_properties,         *)
(*               driven by BaseScraper.run (scrapers/base.py) and by       *)
(*               run_scraper (app.py)                                      *)
(*   Strategy A  backend/storage.py    StorageManager                      *)
(*                                                                         *)
(* Every call to the backing store is one step, so that a state in the     *)
(* middle of a run is a state a crash can leave behind.                    *)
(***************************************************************************)
EXTENDS Integers, Sequences, FiniteSets, TLC

\* ---------------------------------------------------------------- bounds

\* Records insert_properties processes over a whole behaviour, all runs together.
MaxRecords == 3
\* Longest batch one scrape returns.
MaxBatch == 2
\* Store calls that fail over a whole behaviour.
MaxFaults == 1
\* Records the runs of app.py process over a behaviour.
MaxAppRecords == 1
\* Records the interleaved runs process over a behaviour.
MaxRaceRecords == 2
\* Largest max_retries a wrapper is given.
MaxRetries == 3

\* ------------------------------------------------------------------ data

Sources == {"cbre", "jll"}

\* Python's None: what dict.get returns for a missing key.
None == "<None>"

\* str(): the identity on a string, "None" on None.
Str(v) == IF v = None THEN "None" ELSE v

\* Keys of a scraped record that the store reads.
RawFields ==
    {"property_name", "address", "floor_suite", "space_available", "price", "listing_url"}

\* The 'updated_at' a scraper puts in its records: its own clock's reading, which
\* is none of the store's.
ScrapedAt == -1

Rec(n, a, f, sp, p) ==
    [property_name |-> n, address |-> a, floor_suite |-> f,
     space_available |-> sp, price |-> p, listing_url |-> "u1",
     updated_at |-> ScrapedAt, source |-> None]

\* The listings a scrape may return: one listing and the records that differ
\* from it in its price, in two monitored fields, in its name, in its address
\* and in its floor, which is the empty string that the scraper of "cbre" gives
\* a listing without floors. No scraper puts a 'source' in its records; one record here
\* carries the tag of another source, which insert_properties is to overwrite.
TowerA == Rec("Tower A", "1 Main St", "2F", "5000sqft", "$30")
TowerA_Price == Rec("Tower A", "1 Main St", "2F", "5000sqft", "$31")
TowerA_PriceSpace ==
    [Rec("Tower A", "1 Main St", "2F", "4000sqft", "$31") EXCEPT !.source = "jll"]
TowerA_Renamed == Rec("Tower B", "1 Main St", "2F", "5000sqft", "$30")
TowerA_Moved == Rec("Tower A", "2 Oak St", "2F", "5000sqft", "$30")
TowerA_Floor == Rec("Tower A", "1 Main St", "", "5000sqft", "$30")

Catalog ==
    {TowerA, TowerA_Price, TowerA_PriceSpace, TowerA_Renamed, TowerA_Moved, TowerA_Floor}

RECURSIVE SeqsUpTo(_, _)
SeqsUpTo(S, n) ==
    IF n = 0 THEN {<<>>}
    ELSE LET shorter == SeqsUpTo(S, n - 1)
         IN  shorter \cup {Append(q, x) : q \in {t \in shorter : Len(t) = n - 1}, x \in S}

\* The identity key of the data model: property_name, address, floor_suite
\* (the source is the snapshot the record lives in).
IdentityKey(r) == <<r.property_name, r.address, r.floor_suite>>

VARIABLES
    properties,        \* table "properties": a sequence of rows, row i has id i
    property_changes,  \* table "property_changes": the change log, in append order
    scrape_logs,       \* table "scrape_logs": the run ledger, in append order
    scraper_status,    \* app.scraper_status: source -> state ("idle" when absent)
    run,               \* worker -> the run it executes and where it stands
    finished,          \* the run that ended last and how it ended
    step,              \* what the last record processed by insert_properties did
    clock,             \* the time, one tick per reading of datetime.now()
    budget,            \* records that may still be processed
    faults,            \* store calls that may still fail
    failed,            \* the kinds of store call that have failed so far
    listings,          \* the records the scraped sites can show
    scheduled,         \* the sources whose scraper runs
    strategy,          \* the persistence strategy in use: "A" (storage) or "B" (database)
    req,               \* request thread -> where it stands in trigger_scraper
    last_stored,       \* source and batch of the run that just stored its batch
    files,             \* storage: source -> current.json ([exists, data])
    call,              \* storage: the last compare_and_save_results call
    answer,            \* what the last get_changes_since_last_scrape returned
    retry              \* with_retry: the wrapper's call, its locals and what it did

vars ==
    <<properties, property_changes, scrape_logs, scraper_status, run, finished,
      step, clock, budget, faults, failed, listings, scheduled, strategy, req, last_stored,
      files, call, answer, retry>>

dbVars == <<properties, property_changes, scrape_logs>>
\* What no step changes: the configuration of a behaviour.
envVars == <<listings, scheduled, strategy>>
storageVars == <<files, call>>
queryVars == <<answer, retry>>

Workers == {1, 2}

\* -------------------------------------------------- database.py (pure parts)

\* Database._has_changes
DbFieldsToCompare == <<"property_name", "space_available", "price", "listing_url">>

DbHasChanges(old_prop, new_prop) ==
    \E i \in 1..Len(DbFieldsToCompare) :
        old_prop[DbFieldsToCompare[i]] # new_prop[DbFieldsToCompare[i]]

\* insert_properties: fields_to_track and the entries built from them
FieldsToTrack == <<"property_name", "space_available", "price", "listing_url">>

\* An entry whose old_value is read from the new record as well.
FieldChange_FromRecord(prop_id, field, old_prop, prop, source, now) ==
    [property_id |-> prop_id, field_name |-> field,
     old_value |-> Str(prop[field]), new_value |-> Str(prop[field]),
     source |-> source, modified_at |-> now]

\* A slip in building the entry: the two values exchanged.
FieldChange_Swapped(prop_id, field, old_prop, prop, source, now) ==
    [property_id |-> prop_id, field_name |-> field,
     old_value |-> Str(prop[field]), new_value |-> Str(old_prop[field]),
     source |-> source, modified_at |-> now]

FieldChange(prop_id, field, old_prop, prop, source, now) ==
    [property_id |-> prop_id, field_name |-> field,
     old_value |-> Str(old_prop[field]), new_value |-> Str(prop[field]),
     source |-> source, modified_at |-> now]

RECURSIVE ChangesFrom(_, _, _, _, _, _)
ChangesFrom(i, prop_id, old_prop, prop, source, now) ==
    IF i > Len(FieldsToTrack) THEN <<>>
    ELSE LET field == FieldsToTrack[i]
             rest == ChangesFrom(i + 1, prop_id, old_prop, prop, source, now)
         IN  IF Str(old_prop[field]) # Str(prop[field])
             THEN <<FieldChange(prop_id, field, old_prop, prop, source, now)>> \o rest
             ELSE rest

TrackedChanges(prop_id, old_prop, prop, source, now) ==
    ChangesFrom(1, prop_id, old_prop, prop, source, now)

\* The select without its filter .eq("source", source).
LookupMatches_AnySource(rows, prop, source) ==
    {i \in 1..Len(rows) :
        /\ rows[i].address = prop.address
        /\ rows[i].floor_suite = prop.floor_suite}

\* The select with one more filter, .eq("property_name", ...): a lookup by the
\* whole identity key of the data model.
LookupMatches_ByIdentityKey(rows, prop, source) ==
    {i \in 1..Len(rows) :
        /\ rows[i].property_name = prop.property_name
        /\ rows[i].address = prop.address
        /\ rows[i].floor_suite = prop.floor_suite
        /\ rows[i].source = source}

\* The select of insert_properties: ids of the rows with the record's address
\* and floor_suite and the run's source.
LookupMatches(rows, prop, source) ==
    {i \in 1..Len(rows) :
        /\ rows[i].address = prop.address
        /\ rows[i].floor_suite = prop.floor_suite
        /\ rows[i].source = source}

\* An insert that sets the source only where the record has none.
InsertedRow_KeepsTag(id, prop, source, now) ==
    [id |-> id, source |-> IF prop.source = None THEN source ELSE prop.source,
     property_name |-> prop.property_name, address |-> prop.address,
     floor_suite |-> prop.floor_suite, space_available |-> prop.space_available,
     price |-> prop.price, listing_url |-> prop.listing_url,
     created_at |-> now, updated_at |-> now]

\* An insert that leaves the record's own 'updated_at' in place.
InsertedRow_ScraperStamp(id, prop, source, now) ==
    [id |-> id, source |-> source,
     property_name |-> prop.property_name, address |-> prop.address,
     floor_suite |-> prop.floor_suite, space_available |-> prop.space_available,
     price |-> prop.price, listing_url |-> prop.listing_url,
     created_at |-> now, updated_at |-> prop.updated_at]

\* .insert(prop): prop carries the scraped fields, source, and the created_at and
\* updated_at that insert_properties sets to current_time over the record's own.
InsertedRow(id, prop, source, now) ==
    [id |-> id, source |-> source,
     property_name |-> prop.property_name, address |-> prop.address,
     floor_suite |-> prop.floor_suite, space_available |-> prop.space_available,
     price |-> prop.price, listing_url |-> prop.listing_url,
     created_at |-> now, updated_at |-> now]

\* An update by a record to which created_at was given before the branch.
UpdatedRow_Recreated(row, prop, source, now) ==
    [row EXCEPT !.source = source,
                !.property_name = prop.property_name, !.address = prop.address,
                !.floor_suite = prop.floor_suite,
                !.space_available = prop.space_available,
                !.price = prop.price, !.listing_url = prop.listing_url,
                !.created_at = now, !.updated_at = now]

\* An update that writes the availability and the price only.
UpdatedRow_SpaceAndPrice(row, prop, source, now) ==
    [row EXCEPT !.space_available = prop.space_available, !.price = prop.price,
                !.updated_at = now]

\* .update(prop).eq("id", prop_id): prop carries the scraped fields, source and
\* updated_at; created_at is not among them.
UpdatedRow(row, prop, source, now) ==
    [row EXCEPT !.source = source,
                !.property_name = prop.property_name, !.address = prop.address,
                !.floor_suite = prop.floor_suite,
                !.space_available = prop.space_available,
                !.price = prop.price, !.listing_url = prop.listing_url,
                !.updated_at = now]

\* log_scrape's row
ScrapeLog(source, status, count, now) ==
    [source |-> source, status |-> status, properties_count |-> count, created_at |-> now]


\* The select ordered by created_at ascending: the first scrape, not the last.
LastScrape_Earliest(logs, source) ==
    {i \in 1..Len(logs) :
        /\ logs[i].source = source
        /\ \A j \in 1..Len(logs) :
              logs[j].source = source => logs[j].created_at >= logs[i].created_at}

\* The ledger rows of a source that no row of the source is later than: what
\* .eq("source", source).order("created_at", desc=True).limit(1) may return.
LastScrape(logs, source) ==
    {i \in 1..Len(logs) :
        /\ logs[i].source = source
        /\ \A j \in 1..Len(logs) :
              logs[j].source = source => logs[j].created_at <= logs[i].created_at}

\* The result of get_changes_since_last_scrape when the select of the ledger
\* returned row i.
ChangesSince(rows, changes, logs, source, i) ==
    LET last_scrape_time == logs[i].created_at
    IN  [source |-> source,
         new |-> SelectSeq(rows, LAMBDA row :
                    row.source = source /\ row.created_at > last_scrape_time),
         modified |-> SelectSeq(changes, LAMBDA change :
                    change.source = source /\ change.modified_at > last_scrape_time)]

NoAnswer == [source |-> "none", new |-> <<>>, modified |-> <<>>]

\* ------------------------------------------------- base.py: with_retry

RECURSIVE Pow(_, _)
Pow(b, k) == IF k = 0 THEN 1 ELSE b * Pow(b, k - 1)

\* What with_retry leaves alone.
RetryFrame ==
    UNCHANGED <<dbVars, scraper_status, run, finished, step, clock, budget, faults, failed,
                envVars, req, last_stored, storageVars, answer>>

\* No call of a wrapper yet. calls, slept and outcomes record what the wrapper
\* did: attempts made, the sleeps in order, how each attempt ended.
NoRetry ==
    [pc |-> "idle", max_retries |-> 0, delay |-> 0, backoff |-> 0, attempt |-> 0,
     last_error |-> None, result |-> None, raised |-> None,
     calls |-> 0, slept |-> <<>>, outcomes |-> <<>>]

\* The exception attempt number attempt raises, the value it returns.
ErrorOf(attempt) == <<"error", attempt>>
ResultOf(attempt) == <<"result", attempt>>

\* A sleep after every failed attempt, the last one too.
ShouldSleep_Always(attempt, max_retries) == TRUE

\* if attempt < max_retries - 1
ShouldSleep(attempt, max_retries) == attempt < max_retries - 1

\* wait_time = delay * (backoff ** attempt)
WaitTime(delay, backoff, attempt) == delay * Pow(backoff, attempt)

\* wrapper(self, ...) is called: last_error = None, the loop begins
Wrapper(max_retries, delay, backoff) ==
    /\ retry.pc = "idle"
    /\ retry' = [NoRetry EXCEPT !.pc = "loop", !.max_retries = max_retries,
                                !.delay = delay, !.backoff = backoff]
    /\ RetryFrame

\* One turn of for attempt in range(max_retries): func returns and so does the
\* wrapper, or func raises; after the loop, raise last_error (with last_error
\* None, when the loop had no turn, the raise statement raises TypeError).
Attempt ==
    /\ retry.pc = "loop"
    /\ IF retry.attempt < retry.max_retries
       THEN \/ retry' = [retry EXCEPT !.pc = "returned",
                                      !.result = ResultOf(retry.attempt),
                                      !.calls = @ + 1,
                                      !.outcomes = Append(@, "returned")]
            \/ retry' = [retry EXCEPT
                            !.last_error = ErrorOf(retry.attempt),
                            !.calls = @ + 1,
                            !.outcomes = Append(@, "raised"),
                            !.pc = IF ShouldSleep(retry.attempt, retry.max_retries)
                                   THEN "sleep" ELSE "loop",
                            !.attempt = IF ShouldSleep(retry.attempt, retry.max_retries)
                                        THEN @ ELSE @ + 1]
       ELSE retry' = [retry EXCEPT !.pc = "raised",
                                   !.raised = IF retry.last_error = None THEN "TypeError"
                                              ELSE retry.last_error]
    /\ RetryFrame

\* await asyncio.sleep(wait_time), then the next turn of the loop
Sleep ==
    /\ retry.pc = "sleep"
    /\ retry' = [retry EXCEPT
                    !.slept = Append(@, WaitTime(retry.delay, retry.backoff, retry.attempt)),
                    !.attempt = @ + 1,
                    !.pc = "loop"]
    /\ RetryFrame

\* ------------------------------------------------------------- run state

NoRow == <<>>

\* A worker's run: the locals of the orchestrator and of insert_properties (pc,
\* source, batch, k, now, old, changes) and, for the properties, what the stores
\* held when the run started (s_) and when the record's select ran (log0).
IdleRun ==
    [pc |-> "idle", orch |-> "none", via |-> "none", source |-> "none",
     batch |-> <<>>, k |-> 0, now |-> 0, old |-> NoRow, changes |-> <<>>,
     log0 |-> <<>>, log_failed |-> FALSE,
     s_props |-> <<>>, s_changes |-> <<>>, s_logs |-> <<>>, repeat |-> FALSE]

NoRun ==
    [orch |-> "none", source |-> "none", batch |-> <<>>, outcome |-> "none",
     stored |-> FALSE, ret |-> "none", k |-> 0,
     s_props |-> <<>>, s_changes |-> <<>>, s_logs |-> <<>>, repeat |-> FALSE]

NoStep ==
    [kind |-> "none", source |-> "none", prop |-> TowerA, old |-> NoRow,
     appended |-> <<>>, log_failed |-> FALSE, before |-> <<>>]

NoBatch == [source |-> "none", batch |-> <<>>]

\* A store call fails: one of the failures the behaviour may still see.
Fault(kind) == faults > 0 /\ faults' = faults - 1 /\ failed' = failed \cup {kind}
NoFault == UNCHANGED <<faults, failed>>

\* The run of worker w ends: how, whether insert_properties had returned, and
\* what the orchestrator returns. run_scraper also records the state.
End(w, outcome, stored, ret) ==
    /\ finished' =
          [orch |-> run[w].orch, source |-> run[w].source, batch |-> run[w].batch,
           outcome |-> outcome, stored |-> stored, ret |-> ret, k |-> run[w].k,
           s_props |-> run[w].s_props, s_changes |-> run[w].s_changes,
           s_logs |-> run[w].s_logs, repeat |-> run[w].repeat]
    /\ run' = [run EXCEPT ![w] = IdleRun]
    /\ scraper_status' =
          IF run[w].orch = "app"
          THEN [scraper_status EXCEPT
                   ![run[w].source] = IF outcome = "success" THEN "completed" ELSE "failed"]
          ELSE scraper_status
    /\ last_stored' =
          IF stored THEN [source |-> run[w].source, batch |-> run[w].batch]
          ELSE last_stored

Started(w, s, orch, pc) ==
    [IdleRun EXCEPT !.pc = pc, !.orch = orch, !.source = s, !.via = run[w].via,
                    !.s_props = properties, !.s_changes = property_changes,
                    !.s_logs = scrape_logs]

\* ----------------------------------------------- scrapers/base.py, app.py

\* BaseScraper.run, up to the call of scrape()
BaseRun(w, s) ==
    /\ run[w].pc = "idle"
    /\ run' = [run EXCEPT ![w] = Started(w, s, "base", "scrape")]
    /\ finished' = NoRun
    /\ UNCHANGED <<dbVars, scraper_status, step, clock, budget, faults, failed, envVars, req, last_stored, storageVars, queryVars>>

\* run_scraper, up to the call of load_scraper
AppRun(w, s) ==
    /\ run[w].pc = "spawned"
    /\ run[w].source = s
    /\ run' = [run EXCEPT ![w] = Started(w, s, "app", "load")]
    /\ scraper_status' = [scraper_status EXCEPT ![s] = "running"]
    /\ finished' = NoRun
    /\ UNCHANGED <<dbVars, step, clock, budget, faults, failed, envVars, req,
                   last_stored, storageVars, queryVars>>

\* load_scraper: the module, or None when its import fails
LoadScraper(w) ==
    /\ run[w].pc = "load"
    /\ \/ /\ run' = [run EXCEPT ![w].pc = "scrape"]
          /\ UNCHANGED <<scraper_status, finished, last_stored>>
       \/ End(w, "load_failed", FALSE, "None")
    /\ UNCHANGED <<dbVars, step, clock, budget, faults, failed, envVars, req, storageVars, queryVars>>

\* scrape() / extract_property_urls(): raises, returns nothing, or returns a
\* batch. insert_properties reads the batch one record at a time, and the model
\* draws each record when insert_properties reaches it (Advance); a scrape that
\* returns the batch of the run before returns it whole.
Scrape(w) ==
    /\ run[w].pc = "scrape"
    /\ \/ End(w, "scrape_failed", FALSE, IF run[w].orch = "app" THEN "False" ELSE "None")
       \/ End(w, "empty", FALSE, IF run[w].orch = "app" THEN "False" ELSE "None")
       \/ /\ budget > 0
          /\ \E r \in listings :
                run' = [run EXCEPT ![w].pc = "lookup", ![w].batch = <<r>>, ![w].k = 1]
          /\ last_stored' = NoBatch
          /\ UNCHANGED <<scraper_status, finished>>
       \/ /\ budget > 0
          /\ last_stored.source = run[w].source
          /\ run' = [run EXCEPT ![w].pc = "lookup", ![w].batch = last_stored.batch,
                                ![w].k = 1, ![w].repeat = TRUE]
          /\ last_stored' = NoBatch
          /\ UNCHANGED <<scraper_status, finished>>
    /\ UNCHANGED <<dbVars, step, clock, budget, faults, failed, envVars, req, storageVars, queryVars>>

\* ------------------------------------------- Database.insert_properties

Prop(w) == run[w].batch[run[w].k]

Raised_ReportedAsSuccess(w, outcome) ==
    End(w, outcome, TRUE, IF run[w].orch = "app" THEN "True" ELSE "results")

\* The exception of a store call leaves insert_properties and is caught by the
\* orchestrator's except clause.
Raised(w, outcome) ==
    End(w, outcome, FALSE, IF run[w].orch = "app" THEN "False" ELSE "None")

\* One record: source and current_time set, the select executed, the changes
\* computed from the row it returned.
Lookup(w) ==
    /\ run[w].pc = "lookup"
    /\ budget > 0
    /\ budget' = budget - 1
    /\ clock' = clock + 1
    /\ \/ Fault("lookup") /\ Raised(w, "lookup_failed")
       \/ /\ LookupMatches(properties, Prop(w), run[w].source) = {}
          /\ NoFault
          /\ run' = [run EXCEPT ![w].pc = "insert", ![w].now = clock', ![w].old = NoRow,
                                ![w].changes = <<>>, ![w].log0 = property_changes,
                                ![w].log_failed = FALSE]
          /\ UNCHANGED <<scraper_status, finished, last_stored>>
       \/ \E id \in LookupMatches(properties, Prop(w), run[w].source) :
             LET old_prop == properties[id]
                 changes ==
                     IF DbHasChanges(old_prop, Prop(w))
                     THEN TrackedChanges(id, old_prop, Prop(w), run[w].source, clock')
                     ELSE <<>>
             IN  /\ NoFault
                 /\ run' = [run EXCEPT ![w].pc = IF changes # <<>> THEN "log_changes"
                                                 ELSE "update",
                                       ![w].now = clock', ![w].old = <<old_prop>>,
                                       ![w].changes = changes,
                                       ![w].log0 = property_changes,
                                       ![w].log_failed = FALSE]
                 /\ UNCHANGED <<scraper_status, finished, last_stored>>
    /\ UNCHANGED <<dbVars, step, envVars, req, storageVars, queryVars>>

LogChanges_Fatal(w) ==
    /\ run[w].pc = "log_changes"
    /\ \/ /\ property_changes' = property_changes \o run[w].changes
          /\ run' = [run EXCEPT ![w].pc = "update"]
          /\ NoFault
          /\ UNCHANGED <<scraper_status, finished, last_stored>>
       \/ /\ Fault("log")
          /\ Raised(w, "write_failed")
          /\ UNCHANGED property_changes
    /\ UNCHANGED <<properties, scrape_logs, step, clock, budget, envVars, req, storageVars, queryVars>>

\* table("property_changes").insert(changes); its failure is printed and dropped
LogChanges(w) ==
    /\ run[w].pc = "log_changes"
    /\ \/ /\ property_changes' = property_changes \o run[w].changes
          /\ run' = [run EXCEPT ![w].pc = "update"]
          /\ NoFault
       \/ /\ Fault("log")
          /\ run' = [run EXCEPT ![w].pc = "update", ![w].log_failed = TRUE]
          /\ UNCHANGED property_changes
    /\ UNCHANGED <<properties, scrape_logs, scraper_status, finished, step, clock,
                   budget, envVars, req, last_stored, storageVars, queryVars>>

\* After the write of record k: the next record of the batch, or
\* insert_properties returns.
Advance(w) ==
    \/ /\ run[w].k < Len(run[w].batch)
       /\ run' = [run EXCEPT ![w].pc = "lookup", ![w].k = run[w].k + 1]
    \/ /\ run[w].k = Len(run[w].batch)
       /\ ~run[w].repeat
       /\ Len(run[w].batch) < MaxBatch
       /\ budget > 0
       /\ \E r \in listings :
             run' = [run EXCEPT ![w].pc = "lookup", ![w].k = run[w].k + 1,
                                ![w].batch = Append(run[w].batch, r)]
    \/ /\ run[w].k = Len(run[w].batch)
       /\ run' = [run EXCEPT ![w].pc = "stored"]

\* For the properties: the record just written, the row its select returned, the
\* entries the change log gained since that select, the table before the write.
Processed(w, kind) ==
    [kind |-> kind, source |-> run[w].source, prop |-> Prop(w), old |-> run[w].old,
     appended |-> SubSeq(property_changes, Len(run[w].log0) + 1, Len(property_changes)),
     log_failed |-> run[w].log_failed,
     before |-> properties]

\* table("properties").update(prop).eq("id", prop_id)
Update(w) ==
    /\ run[w].pc = "update"
    /\ \/ /\ properties' =
                [properties EXCEPT ![run[w].old[1].id] =
                    UpdatedRow(@, Prop(w), run[w].source, run[w].now)]
          /\ Advance(w)
          /\ step' = Processed(w, "update")
          /\ UNCHANGED <<scraper_status, finished, last_stored, faults, failed>>
       \/ /\ Fault("write")
          /\ Raised(w, "write_failed")
          /\ UNCHANGED <<properties, step>>
    /\ UNCHANGED <<property_changes, scrape_logs, clock, budget, envVars, req, storageVars, queryVars>>

\* table("properties").insert(prop)
Insert(w) ==
    /\ run[w].pc = "insert"
    /\ \/ /\ properties' =
                Append(properties,
                       InsertedRow(Len(properties) + 1, Prop(w), run[w].source, run[w].now))
          /\ Advance(w)
          /\ step' = Processed(w, "insert")
          /\ UNCHANGED <<scraper_status, finished, last_stored, faults, failed>>
       \/ /\ Fault("write")
          /\ Raised(w, "write_failed")
          /\ UNCHANGED <<properties, step>>
    /\ UNCHANGED <<property_changes, scrape_logs, clock, budget, envVars, req, storageVars, queryVars>>

\* BaseScraper.run after insert_properties: log_scrape, then return results
LogScrape(w) ==
    /\ run[w].pc = "stored"
    /\ run[w].orch = "base"
    /\ clock' = clock + 1
    /\ \/ /\ scrape_logs' =
                Append(scrape_logs,
                       ScrapeLog(run[w].source, "success", Len(run[w].batch), clock'))
          /\ End(w, "success", TRUE, "results")
          /\ NoFault
       \/ /\ Fault("ledger")
          /\ End(w, "ledger_failed", TRUE, "None")
          /\ UNCHANGED scrape_logs
    /\ UNCHANGED <<properties, property_changes, step, budget, envVars, req, storageVars, queryVars>>

\* run_scraper after insert_properties: state 'completed', return True
AppComplete(w) ==
    /\ run[w].pc = "stored"
    /\ run[w].orch = "app"
    /\ End(w, "success", TRUE, "True")
    /\ UNCHANGED <<dbVars, step, clock, budget, faults, failed, envVars, req, storageVars, queryVars>>

\* Database.get_changes_since_last_scrape
GetChangesSinceLastScrape(source) ==
    /\ \/ /\ LastScrape(scrape_logs, source) = {}
          /\ answer' = [NoAnswer EXCEPT !.source = source]
       \/ \E i \in LastScrape(scrape_logs, source) :
             answer' = ChangesSince(properties, property_changes, scrape_logs, source, i)
    /\ UNCHANGED <<dbVars, scraper_status, run, finished, step, clock, budget, faults, failed,
                   envVars, req, last_stored, storageVars, retry>>

InsertProperties(w) ==
    \/ Lookup(w)
    \/ LogChanges(w)
    \/ Update(w)
    \/ Insert(w)

\* ------------------------------------------------------------ storage.py

NoFile == [exists |-> FALSE, data |-> <<>>]

NoChanges == [new |-> <<>>, modified |-> <<>>, removed |-> <<>>]

NoCall ==
    [kind |-> "none", source |-> "none", batch |-> <<>>, had_prev |-> FALSE,
     prev |-> <<>>, changes |-> NoChanges]

\* The key without the address: the property name alone.
GetPropertyKey_NameOnly(property_data) == property_data.property_name

\* StorageManager._get_property_key
GetPropertyKey(property_data) ==
    property_data.property_name \o "|" \o property_data.address

\* StorageManager._has_changes
StorageFieldsToCompare == <<"space_available", "price", "floor_suite">>

\* The comparison without 'floor_suite' among the fields to compare.
StorageHasChanges_NoFloor(prev_prop, new_prop) ==
    \E field \in {"space_available", "price"} : prev_prop[field] # new_prop[field]

StorageHasChanges(prev_prop, new_prop) ==
    \E i \in 1..Len(StorageFieldsToCompare) :
        prev_prop[StorageFieldsToCompare[i]] # new_prop[StorageFieldsToCompare[i]]

\* {key(prop): prop for prop in props}: a dict keeps its keys in the order of
\* their first occurrence and, for each key, the last value assigned to it.
RECURSIVE LookupKeys(_)
LookupKeys(props) ==
    IF props = <<>> THEN <<>>
    ELSE LET before == LookupKeys(SubSeq(props, 1, Len(props) - 1))
             key == GetPropertyKey(props[Len(props)])
         IN  IF \E i \in 1..Len(before) : before[i] = key THEN before
             ELSE Append(before, key)

\* The index in props of the dict's value for key.
LookupIndex(props, key) ==
    CHOOSE i \in 1..Len(props) :
        /\ GetPropertyKey(props[i]) = key
        /\ \A j \in (i + 1)..Len(props) : GetPropertyKey(props[j]) # key

HasKey(props, key) == \E i \in 1..Len(props) : GetPropertyKey(props[i]) = key

\* A record with its '_status' entry (None: the record has none).
WithStatus(prop, status) ==
    [property_name |-> prop.property_name, address |-> prop.address,
     floor_suite |-> prop.floor_suite, space_available |-> prop.space_available,
     price |-> prop.price, listing_url |-> prop.listing_url,
     updated_at |-> prop.updated_at, source |-> prop.source, status |-> status]

\* The '_status' the loop over new_lookup gives the record of a key.
StatusOf(previous_results, new_results, key) ==
    IF ~HasKey(previous_results, key) THEN "new"
    ELSE IF StorageHasChanges(previous_results[LookupIndex(previous_results, key)],
                              new_results[LookupIndex(new_results, key)])
         THEN "modified"
         ELSE "unchanged"

\* What is saved if the previous results are kept in front of the new ones.
Marked_KeepsPrevious(had_prev, previous_results, new_results) ==
    previous_results \o [i \in 1..Len(new_results) |-> WithStatus(new_results[i], "new")]

\* new_results after the comparison. With a previous file only the records that
\* are values of new_lookup are given a '_status'; without one, all are 'new'.
Marked(had_prev, previous_results, new_results) ==
    [i \in 1..Len(new_results) |->
        IF ~had_prev THEN WithStatus(new_results[i], "new")
        ELSE LET key == GetPropertyKey(new_results[i])
             IN  IF LookupIndex(new_results, key) = i
                 THEN WithStatus(new_results[i], StatusOf(previous_results, new_results, key))
                 ELSE WithStatus(new_results[i], None)]

\* The values of the dict of props, in key order, whose key is in kept.
RECURSIVE Collect(_, _, _)
Collect(props, keys, kept) ==
    IF keys = <<>> THEN <<>>
    ELSE LET rest == Collect(props, Tail(keys), kept)
         IN  IF Head(keys) \in kept THEN <<props[LookupIndex(props, Head(keys))]>> \o rest
             ELSE rest

KeySet(props) == {GetPropertyKey(props[i]) : i \in 1..Len(props)}

\* The dict compare_and_save_results returns.
Changes(had_prev, previous_results, new_results) ==
    LET marked == Marked(had_prev, previous_results, new_results)
        with(status) ==
            {key \in KeySet(new_results) :
                StatusOf(previous_results, new_results, key) = status}
        gone == {key \in KeySet(previous_results) : ~HasKey(new_results, key)}
    IN  IF had_prev
        THEN [new |-> Collect(marked, LookupKeys(new_results), with("new")),
              modified |-> Collect(marked, LookupKeys(new_results), with("modified")),
              removed |-> Collect(previous_results, LookupKeys(previous_results), gone)]
        ELSE [new |-> marked, modified |-> <<>>, removed |-> <<>>]

\* StorageManager.compare_and_save_results: json.load of current.json raises and
\* nothing is written, or the comparison is made, new_results is saved as
\* current.json and the changes are returned.
CompareAndSaveResults(scraper_id, new_results) ==
    /\ \/ /\ files[scraper_id].exists
          /\ call' = [NoCall EXCEPT !.kind = "raised", !.source = scraper_id,
                                    !.batch = new_results, !.had_prev = TRUE]
          /\ UNCHANGED files
       \/ LET had_prev == files[scraper_id].exists
              previous_results == files[scraper_id].data
          IN  /\ files' = [files EXCEPT ![scraper_id] =
                              [exists |-> TRUE,
                               data |-> Marked(had_prev, previous_results, new_results)]]
              /\ call' = [kind |-> "returned", source |-> scraper_id,
                          batch |-> new_results, had_prev |-> had_prev,
                          prev |-> previous_results,
                          changes |-> Changes(had_prev, previous_results, new_results)]
    /\ UNCHANGED <<dbVars, scraper_status, run, finished, step, clock, faults, failed,
                   envVars, req, last_stored, queryVars>>

\* StorageManager.get_current_results
GetCurrentResults(scraper_id) ==
    IF files[scraper_id].exists THEN files[scraper_id].data ELSE <<>>

\* ------------------------------------------------- the specifications

\* A row another source's run has stored: the same listing, scraped from "jll".
OtherSourceRow == InsertedRow(1, TowerA, "jll", 0)

\* current.json of "jll" as a call for "jll" with the one listing leaves it.
OtherSourceFile == [exists |-> TRUE, data |-> <<WithStatus(TowerA, "new")>>]

Handlers == {1, 2}

IdleReq == [pc |-> "idle", source |-> "none", response |-> "none"]

InitIdle ==
    /\ property_changes = <<>>
    /\ scrape_logs = <<>>
    /\ scraper_status = [s \in Sources |-> "idle"]
    /\ run = [w \in Workers |-> IdleRun]
    /\ req = [h \in Handlers |-> IdleReq]
    /\ finished = NoRun
    /\ step = NoStep
    /\ clock = 0
    /\ last_stored = NoBatch
    /\ call = NoCall
    /\ answer = NoAnswer
    /\ failed = {}
    /\ retry = NoRetry
    /\ scheduled = {"cbre"}

\* Strategy B: the database is empty, or holds what a run for "jll" stored.
InitB ==
    /\ InitIdle
    /\ strategy = "B"
    /\ properties \in {<<>>, <<OtherSourceRow>>}
    /\ files = [s \in Sources |-> NoFile]
    /\ budget = MaxRecords
    /\ faults = MaxFaults
    /\ listings = Catalog

\* Strategy A: no current.json yet, or the one a call for "jll" saved.
InitA ==
    /\ InitIdle
    /\ strategy = "A"
    /\ properties = <<>>
    /\ files \in {[s \in Sources |-> NoFile],
                  [s \in Sources |-> IF s = "jll" THEN OtherSourceFile ELSE NoFile]}
    /\ budget = MaxRecords
    /\ faults = 0
    /\ listings = Catalog \ {TowerA_PriceSpace}

Init == InitA \/ InitB

AllIdle == \A w \in Workers : run[w].pc = "idle"

\* BaseScraper(source).run(), one run at a time
ScraperRun(s) ==
    /\ strategy = "B"
    /\ AllIdle
    /\ BaseRun(1, s)

Min(a, b) == IF a < b THEN a ELSE b

\* compare_and_save_results called with the results of a scrape
SaveScraped(s, batch) ==
    /\ strategy = "A"
    /\ CompareAndSaveResults(s, batch)
    /\ budget' = budget - Len(batch)

\* compare_and_save_results called again with the results of the call before
SaveAgain ==
    /\ strategy = "A"
    /\ call.kind = "returned"
    /\ CompareAndSaveResults(call.source, call.batch)
    /\ UNCHANGED budget

Next ==
    \/ \E s \in scheduled : ScraperRun(s)
    \/ Scrape(1)
    \/ InsertProperties(1)
    \/ LogScrape(1)
    \/ \E s \in scheduled, batch \in SeqsUpTo(listings, Min(MaxBatch, budget)) :
          SaveScraped(s, batch)
    \/ SaveAgain

Spec == Init /\ [][Next]_vars

\* ------------------------------------ app.py: manual triggers and cron jobs

\* The thread that thread.start() or the scheduler's pool gives the run.
IdleWorkers == {w \in Workers : run[w].pc = "idle"}
FreeWorker == CHOOSE w \in IdleWorkers : \A v \in IdleWorkers : w <= v

Spawned(s, via) == [IdleRun EXCEPT !.pc = "spawned", !.source = s, !.via = via]

\* trigger_scraper: the request is refused when the state is 'running'
TriggerCheck(h, s) ==
    /\ req[h].pc = "idle"
    /\ req' = [req EXCEPT ![h] =
                  IF scraper_status[s] = "running"
                  THEN [pc |-> "idle", source |-> s, response |-> "400"]
                  ELSE [pc |-> "set", source |-> s, response |-> "none"]]
    /\ UNCHANGED <<dbVars, scraper_status, run, finished, step, clock, budget, faults, failed,
                   envVars, last_stored, storageVars, queryVars>>

\* trigger_scraper: scraper_status[scraper_id] = {'state': 'running', ...}
TriggerSet(h) ==
    /\ req[h].pc = "set"
    /\ scraper_status' = [scraper_status EXCEPT ![req[h].source] = "running"]
    /\ req' = [req EXCEPT ![h].pc = "start"]
    /\ UNCHANGED <<dbVars, run, finished, step, clock, budget, faults, failed, envVars,
                   last_stored, storageVars, queryVars>>

\* trigger_scraper: thread.start(), then the response 'started'
TriggerStart(h) ==
    /\ req[h].pc = "start"
    /\ IdleWorkers # {}
    /\ run' = [run EXCEPT ![FreeWorker] = Spawned(req[h].source, "manual")]
    /\ req' = [req EXCEPT ![h].pc = "idle", ![h].response = "started"]
    /\ UNCHANGED <<dbVars, scraper_status, finished, step, clock, budget, faults, failed,
                   envVars, last_stored, storageVars, queryVars>>

\* The scheduler fires the job of a source; max_instances = 1 keeps a second
\* instance of the same job from starting while one runs.
CronFire(s) ==
    /\ ~\E w \in Workers : run[w].via = "cron" /\ run[w].source = s
    /\ IdleWorkers # {}
    /\ run' = [run EXCEPT ![FreeWorker] = Spawned(s, "cron")]
    /\ UNCHANGED <<dbVars, scraper_status, finished, step, clock, budget, faults, failed,
                   envVars, req, last_stored, storageVars, queryVars>>

\* The table is empty, or holds the row an earlier run for "cbre" stored.
InitApp ==
    /\ InitIdle
    /\ strategy = "B"
    /\ properties \in {<<>>, <<InsertedRow(1, TowerA_Price, "cbre", 0)>>}
    /\ files = [s \in Sources |-> NoFile]
    /\ budget = MaxAppRecords
    /\ faults = 0
    /\ listings = {TowerA}

NextApp ==
    \/ \E h \in Handlers, s \in scheduled : TriggerCheck(h, s)
    \/ \E h \in Handlers : TriggerSet(h)
    \/ \E h \in Handlers : TriggerStart(h)
    \/ \E s \in scheduled : CronFire(s)
    \/ \E w \in Workers, s \in scheduled : AppRun(w, s)
    \/ \E w \in Workers : LoadScraper(w)
    \/ \E w \in Workers : Scrape(w)
    \/ \E w \in Workers : InsertProperties(w)
    \/ \E w \in Workers : AppComplete(w)

SpecApp == InitApp /\ [][NextApp]_vars

\* ------------------------------- both orchestrators, one run at a time

\* run_scraper(source) as the scheduler's job calls it, one run at a time
ScheduledRun(s) ==
    /\ strategy = "B"
    /\ AllIdle
    /\ run' = [run EXCEPT ![1] = Started(1, s, "app", "load")]
    /\ scraper_status' = [scraper_status EXCEPT ![s] = "running"]
    /\ finished' = NoRun
    /\ UNCHANGED <<dbVars, step, clock, budget, faults, failed, envVars, req,
                   last_stored, storageVars, queryVars>>

\* The table is empty; the listing is scraped at one of two prices or at
\* another address.
InitOrch ==
    /\ InitIdle
    /\ strategy = "B"
    /\ properties = <<>>
    /\ files = [s \in Sources |-> NoFile]
    /\ budget = MaxRecords
    /\ faults = MaxFaults
    /\ listings = {TowerA, TowerA_Price, TowerA_Moved}

NextOrch ==
    \/ \E s \in scheduled : ScraperRun(s)
    \/ \E s \in scheduled : ScheduledRun(s)
    \/ LoadScraper(1)
    \/ Scrape(1)
    \/ InsertProperties(1)
    \/ LogScrape(1)
    \/ AppComplete(1)
    \/ \E s \in scheduled : GetChangesSinceLastScrape(s)

SpecOrch == InitOrch /\ [][NextOrch]_vars

\* ------------------- runs of two sources and of one source, interleaved

\* python -m scrapers.jll: BaseScraper.run() in a process of its own; nothing
\* keeps a second process, of the same source or of another, from starting.
ScriptRun(s) ==
    /\ strategy = "B"
    /\ IdleWorkers # {}
    /\ BaseRun(FreeWorker, s)

\* The table is empty, or holds the same listing once for each source.
InitRaceB ==
    /\ InitIdle
    /\ strategy = "B"
    /\ properties \in {<<>>, <<InsertedRow(1, TowerA, "cbre", 0),
                               InsertedRow(2, TowerA, "jll", 0)>>}
    /\ files = [s \in Sources |-> NoFile]
    /\ budget = MaxRaceRecords
    /\ faults = 0
    /\ listings = {TowerA_Price}

\* Each source has its current.json, holding the same listing at two prices.
InitRaceA ==
    /\ InitIdle
    /\ strategy = "A"
    /\ properties = <<>>
    /\ files = [s \in Sources |->
                  IF s = "jll" THEN OtherSourceFile
                  ELSE [exists |-> TRUE, data |-> <<WithStatus(TowerA_Price, "new")>>]]
    /\ budget = MaxRaceRecords
    /\ faults = 0
    /\ listings = {TowerA_Price}

InitRace == InitRaceA \/ InitRaceB

NextRace ==
    \/ \E s \in Sources : ScriptRun(s)
    \/ \E w \in Workers : Scrape(w)
    \/ \E w \in Workers : InsertProperties(w)
    \/ \E w \in Workers : LogScrape(w)
    \/ \E s \in Sources, batch \in SeqsUpTo(listings, Min(MaxBatch, budget)) :
          SaveScraped(s, batch)

SpecRace == InitRace /\ [][NextRace]_vars

\* ------------------------------------------------ a call of a wrapper

InitRetry ==
    /\ InitIdle
    /\ strategy = "B"
    /\ properties = <<>>
    /\ files = [s \in Sources |-> NoFile]
    /\ budget = 0
    /\ faults = 0
    /\ listings = {}

NextRetry ==
    \/ \E max_retries \in 0..MaxRetries, delay \in 1..2, backoff \in 1..3 :
          Wrapper(max_retries, delay, backoff)
    \/ Attempt
    \/ Sleep

\* Each attempt terminates and so does each sleep.
SpecRetry == InitRetry /\ [][NextRetry]_vars /\ WF_vars(NextRetry)

\* ---------------------------------------------------------- properties

Monitored == {"property_name", "space_available", "price", "listing_url"}

KeysOf(props) == {IdentityKey(props[i]) : i \in 1..Len(props)}

OneRecordPerKey(props) ==
    \A i, j \in 1..Len(props) : i # j => IdentityKey(props[i]) # IdentityKey(props[j])

RowsOf(rows, source) == SelectSeq(rows, LAMBDA row : row.source = source)

\* A record of current.json without its '_status'.
Raw(prop) ==
    [property_name |-> prop.property_name, address |-> prop.address,
     floor_suite |-> prop.floor_suite, space_available |-> prop.space_available,
     price |-> prop.price, listing_url |-> prop.listing_url,
     updated_at |-> prop.updated_at, source |-> prop.source]

\* C1: after any sequence of completed reconciliation runs, the stored current
\* snapshot of a source (current.json under Strategy A, the source's rows under
\* Strategy B) holds at most one record per identity key.
C1_OneRecordPerIdentityKey ==
    \A s \in Sources :
        /\ OneRecordPerKey(GetCurrentResults(s))
        /\ AllIdle => OneRecordPerKey(RowsOf(properties, s))

\* The part of C1 that holds: the rows insert_properties leaves behind.
C1_Rows == \A s \in Sources : AllIdle => OneRecordPerKey(RowsOf(properties, s))

\* C3: whenever FieldChange entries are appended to the change log, the row each
\* refers to already holds the entry's new_value: the snapshot write of a
\* modified record comes before the append of its FieldChange entries.
C3_SnapshotWrittenBeforeLog ==
    [][\A i \in (Len(property_changes) + 1)..Len(property_changes') :
          properties'[property_changes'[i].property_id][property_changes'[i].field_name]
              = property_changes'[i].new_value]_vars

\* C4: when reading the stored snapshot fails during a run, the snapshot and the
\* change log are as they were when the run started and the ledger has gained
\* exactly one entry, of status 'failure', for the source.
C4_LoadFailureLeavesOnlyFailureEntry ==
    /\ finished.outcome = "lookup_failed" =>
          /\ properties = finished.s_props
          /\ property_changes = finished.s_changes
          /\ Len(scrape_logs) = Len(finished.s_logs) + 1
          /\ scrape_logs[Len(scrape_logs)].source = finished.source
          /\ scrape_logs[Len(scrape_logs)].status = "failure"
    /\ call.kind = "raised" =>
          /\ Len(scrape_logs) = 1
          /\ scrape_logs[1].source = call.source
          /\ scrape_logs[1].status = "failure"

\* C5: a run whose new batch is empty while the stored snapshot is not leaves the
\* stored snapshot unchanged and reports no stored record as removed.
C5_EmptyBatchLeavesSnapshot ==
    /\ (call.kind = "returned" /\ call.prev # <<>> /\ call.batch = <<>>) =>
          /\ GetCurrentResults(call.source) = call.prev
          /\ call.changes.removed = <<>>
    /\ finished.outcome = "empty" =>
          /\ properties = finished.s_props
          /\ property_changes = finished.s_changes

\* C6: a second run with the batch of the completed run before it yields no new,
\* no modified and no removed record and appends no FieldChange.
C6_SecondRunChangesNothing ==
    /\ \A w \in Workers :
          run[w].repeat =>
              /\ property_changes = run[w].s_changes
              /\ Len(properties) = Len(run[w].s_props)
              /\ run[w].changes = <<>>
              /\ run[w].pc # "insert"
    /\ (call.kind = "returned" /\ call.had_prev
            /\ call.batch = [i \in 1..Len(call.prev) |-> Raw(call.prev[i])]) =>
          call.changes = NoChanges

\* The part of C6 that holds: compare_and_save_results called again with the
\* results it has just saved.
C6_Storage ==
    (call.kind = "returned" /\ call.had_prev
        /\ call.batch = [i \in 1..Len(call.prev) |-> Raw(call.prev[i])]) =>
      call.changes = NoChanges

\* C7: the returned lists 'new', 'modified' and 'removed' hold no identity key
\* twice and are pairwise disjoint by key; 'removed' is exactly the old keys
\* absent from the new batch and 'new' exactly the new keys absent from the old
\* snapshot, also when there is no previous snapshot.
C7_ClassificationComplete ==
    call.kind = "returned" =>
        LET new == call.changes.new
            modified == call.changes.modified
            removed == call.changes.removed
        IN  /\ OneRecordPerKey(new)
            /\ OneRecordPerKey(modified)
            /\ OneRecordPerKey(removed)
            /\ KeysOf(new) \cap KeysOf(modified) = {}
            /\ KeysOf(new) \cap KeysOf(removed) = {}
            /\ KeysOf(modified) \cap KeysOf(removed) = {}
            /\ KeysOf(removed) = KeysOf(call.prev) \ KeysOf(call.batch)
            /\ KeysOf(new) = KeysOf(call.batch) \ KeysOf(call.prev)

\* The workers inside run_scraper for a source.
InFlight(s) == {w \in Workers : run[w].orch = "app" /\ run[w].source = s}

\* C2: for every source at most one run (run_scraper -> insert_properties) is in
\* flight at any time, whatever the interleaving of manual triggers and cron jobs.
C2_AtMostOneRunInFlight == \A s \in Sources : Cardinality(InFlight(s)) <= 1

\* The entries of `appended` for one field.
EntriesFor(appended, field) ==
    {i \in 1..Len(appended) : appended[i].field_name = field}

\* What C8 asks of a record that matched the stored row old_prop.
OneEntryPerDifferingField(appended, old_prop, prop, source) ==
    /\ \A i \in 1..Len(appended) : appended[i].field_name \in Monitored
    /\ \A field \in Monitored :
          IF old_prop[field] # prop[field]
          THEN /\ Cardinality(EntriesFor(appended, field)) = 1
               /\ \A i \in EntriesFor(appended, field) :
                     /\ appended[i].old_value = old_prop[field]
                     /\ appended[i].new_value = prop[field]
                     /\ appended[i].property_id = old_prop.id
                     /\ appended[i].source = source
          ELSE EntriesFor(appended, field) = {}

\* C8 as claimed: a batch record that matches a stored record appends exactly one
\* FieldChange for each monitored field whose value differs, with the stored value
\* as old_value and the batch value as new_value, and none for an equal field; a
\* record with no stored counterpart is inserted and appends no FieldChange.
C8_OneFieldChangePerDifferingField ==
    /\ step.kind = "update" =>
          OneEntryPerDifferingField(step.appended, step.old[1], step.prop, step.source)
    /\ step.kind = "insert" => step.old = NoRow /\ step.appended = <<>>

\* C8 as amended: the same, unless the insert into property_changes fails; then no
\* FieldChange is appended for the record, and the update of its row still
\* follows.
C8_OneFieldChangeUnlessLogFails ==
    /\ (step.kind = "update" /\ ~step.log_failed) =>
          OneEntryPerDifferingField(step.appended, step.old[1], step.prop, step.source)
    /\ (step.kind = "update" /\ step.log_failed) =>
          /\ step.appended = <<>>
          /\ DbHasChanges(step.old[1], step.prop)
    /\ step.kind = "insert" => step.old = NoRow /\ step.appended = <<>>

\* A matched record that differs from its row in two monitored fields has been
\* written and both entries are in the log.
C8_Witness ==
    /\ step.kind = "update"
    /\ ~step.log_failed
    /\ step.old[1].price # step.prop.price
    /\ step.old[1].space_available # step.prop.space_available
    /\ Len(step.appended) = 2

\* The record of current.json at position i was matched to a previous record:
\* the comparison marked it 'modified' or 'unchanged'.
SavedStatus(i) == GetCurrentResults(call.source)[i].status

DiffersOnlyIn(a, b, field) ==
    /\ a[field] # b[field]
    /\ \A other \in RawFields \ {field} : a[other] = b[other]

DiffersInIdentityOnly(a, b) ==
    DiffersOnlyIn(a, b, "floor_suite") \/ DiffersOnlyIn(a, b, "address")

InSeq(x, seq) == \E i \in 1..Len(seq) : seq[i] = x

\* insert_properties, for a record that differs from a stored row of its source
\* only in floor_suite or only in address: the row is not the one it updates and
\* no FieldChange is appended for the row.
NeverAChangeOfTheOldRow ==
    step.kind \in {"update", "insert"} =>
        \A q \in 1..Len(step.before) :
            (/\ step.before[q].source = step.source
             /\ DiffersInIdentityOnly(step.before[q], step.prop)) =>
                /\ step.kind = "update" => step.old[1].id # q
                /\ \A i \in 1..Len(step.appended) : step.appended[i].property_id # q

CountIn(props, Test(_)) == Cardinality({i \in 1..Len(props) : Test(props[i])})

NameAndAddress(p) == p.property_name \o "|" \o p.address

RawResults(file) == [i \in 1..Len(file.data) |-> Raw(file.data[i])]

\* C12: a call of compare_and_save_results that returns leaves current.json of
\* its source holding exactly the records of the batch, so no identity of an
\* earlier batch that is absent from this one remains; the changes it returns are
\* measured against the file as it was before the call: 'removed' holds records
\* of that file only, one for every key of it that the batch lacks, and no 'new'
\* entry has a key of that file. The file of the other source is untouched, and
\* get_current_results of a source without current.json is the empty list.
C12_ReplaceAfterDiff ==
    /\ [](\A s \in Sources : ~files[s].exists => GetCurrentResults(s) = <<>>)
    /\ [][call'.kind = "returned" =>
            LET s == call'.source
                before == files[s].data
                changes == call'.changes
            IN  /\ files'[s].exists
                /\ RawResults(files'[s]) = call'.batch
                /\ KeysOf(files'[s].data) = KeysOf(call'.batch)
                /\ \A t \in Sources \ {s} : files'[t] = files[t]
                /\ \A r \in 1..Len(changes.removed) :
                      /\ InSeq(changes.removed[r], before)
                      /\ ~HasKey(call'.batch, GetPropertyKey(changes.removed[r]))
                /\ \A j \in 1..Len(before) :
                      ~HasKey(call'.batch, GetPropertyKey(before[j])) =>
                          \E r \in 1..Len(changes.removed) :
                              GetPropertyKey(changes.removed[r]) = GetPropertyKey(before[j])
                /\ \A n \in 1..Len(changes.new) :
                      ~HasKey(before, GetPropertyKey(changes.new[n]))]_vars

\* A call has replaced a current.json that held a listing the batch lacks: the
\* listing is reported as removed and is gone from the file.
C12_Witness ==
    /\ call.kind = "returned"
    /\ call.had_prev
    /\ call.batch # <<>>
    /\ call.changes.removed # <<>>
    /\ \A r \in 1..Len(call.changes.removed) :
          IdentityKey(call.changes.removed[r]) \notin KeysOf(GetCurrentResults(call.source))

\* The last record of batch that agrees with record k on the fields in key.
LastLike(batch, k, key) ==
    CHOOSE m \in k..Len(batch) :
        /\ \A f \in key : batch[m][f] = batch[k][f]
        /\ \A n \in (m + 1)..Len(batch) : \E f \in key : batch[n][f] # batch[k][f]

\* After insert_properties(batch, source) has returned: every row stored before
\* the call that no batch record equals on the fields in key (or that belongs to
\* another source) is still there, unchanged, and for every batch record the
\* source has a row that equals it on the fields in key and holds the values of
\* the last batch record that does.
Retention(key) ==
    finished.stored =>
        LET before == finished.s_props
            batch == finished.batch
        IN  /\ Len(properties) >= Len(before)
            /\ \A id \in 1..Len(before) :
                  (\/ before[id].source # finished.source
                   \/ ~\E k \in 1..Len(batch) : \A f \in key : batch[k][f] = before[id][f])
                      => properties[id] = before[id]
            /\ \A k \in 1..Len(batch) :
                  \E id \in 1..Len(properties) :
                      /\ properties[id].source = finished.source
                      /\ \A f \in key : properties[id][f] = batch[k][f]
                      /\ \A f \in RawFields :
                            properties[id][f] = batch[LastLike(batch, k, key)][f]

C14_TimestampsSetByStore ==
    [][\A id \in 1..Len(properties') :
          IF id <= Len(properties)
          THEN /\ properties'[id].created_at = properties[id].created_at
               /\ properties'[id] # properties[id] =>
                     \E w \in Workers :
                         /\ run[w].pc = "update"
                         /\ properties'[id].updated_at = run[w].now
                         /\ properties'[id].updated_at # Prop(w).updated_at
          ELSE \E w \in Workers :
                   /\ run[w].pc = "insert"
                   /\ properties'[id].created_at = run[w].now
                   /\ properties'[id].updated_at = run[w].now
                   /\ run[w].now = clock
                   /\ properties'[id].created_at # Prop(w).updated_at]_vars

\* A row that was inserted and, at a later time, updated: its created_at is
\* still the time of the insertion.
C14_Witness ==
    \E id \in 1..Len(properties) :
        /\ properties[id].source = "cbre"
        /\ properties[id].created_at > 0
        /\ properties[id].updated_at > properties[id].created_at

\* The last record written by insert_properties matched a row that equals it in
\* the four monitored fields.
UnchangedRecordWritten ==
    /\ step.kind = "update"
    /\ \A field \in Monitored : step.old[1][field] = step.prop[field]

\* compare_and_save_results: batch record i is the value of its key in
\* new_lookup, the key has a previous record, and the two are equal in the
\* fields in compared.
UnchangedInFile(i, compared) ==
    /\ HasKey(call.prev, GetPropertyKey(call.batch[i]))
    /\ LookupIndex(call.batch, GetPropertyKey(call.batch[i])) = i
    /\ \A field \in compared :
          call.prev[LookupIndex(call.prev, GetPropertyKey(call.batch[i]))][field]
              = call.batch[i][field]

InNoList(i) ==
    \A status \in {"new", "modified"} :
        /\ ~InSeq(WithStatus(call.batch[i], status), call.changes.new)
        /\ ~InSeq(WithStatus(call.batch[i], status), call.changes.modified)

WrittenRow ==
    IF step.kind = "update" THEN properties[step.old[1].id]
    ELSE properties[Len(step.before) + 1]

\* C16: the row that insert_properties(batch, s) writes for a record and the
\* FieldChange entries it appends for it have source = s, whatever 'source' the
\* scraped record carried; the row it looked up and updates is a row of s, and
\* the rows of the other sources are as they were.
C16_SourceForcedToCaller ==
    step.kind \in {"update", "insert"} =>
        /\ WrittenRow.source = step.source
        /\ \A i \in 1..Len(step.appended) : step.appended[i].source = step.source
        /\ step.kind = "update" => step.old[1].source = step.source
        /\ \A id \in 1..Len(step.before) :
              step.before[id].source # step.source => properties[id] = step.before[id]

\* A record tagged "jll" by its scraper has been written by a run for "cbre"
\* while "jll" has a row for the same address and floor.
C16_Witness ==
    /\ step.kind \in {"update", "insert"}
    /\ step.source = "cbre"
    /\ step.prop.source = "jll"
    /\ \E id \in 1..Len(step.before) :
          /\ step.before[id].source = "jll"
          /\ step.before[id].address = step.prop.address
          /\ step.before[id].floor_suite = step.prop.floor_suite

IdentityFields == {"property_name", "address", "floor_suite"}

\* C17: a record in which an identity field is absent or empty does not fail the
\* batch, and what is stored for it has the sentinel "N/A" in that field: no
\* stored row and no record of current.json has an empty identity field.
C17_EmptyIdentityFieldDefaulted ==
    /\ step.kind \in {"update", "insert"} =>
          \A field \in IdentityFields :
              /\ WrittenRow[field] \notin {"", None}
              /\ step.prop[field] \in {"", None} => WrittenRow[field] = "N/A"
    /\ call.kind = "returned" =>
          \A i \in 1..Len(call.batch), field \in IdentityFields :
              /\ GetCurrentResults(call.source)[i][field] \notin {"", None}
              /\ call.batch[i][field] \in {"", None} =>
                    GetCurrentResults(call.source)[i][field] = "N/A"

\* C18: a run that completes reconciliation appends exactly one ledger entry, of
\* status 'success' and with properties_count the length of the batch, and the
\* entry is appended after the run's snapshot writes; this holds of
\* BaseScraper.run and of run_scraper.
C18_SuccessLeavesOneLedgerEntry ==
    /\ [](finished.outcome = "success" =>
             \E i \in 1..Len(scrape_logs) :
                 /\ scrape_logs[i].source = finished.source
                 /\ scrape_logs[i].status = "success"
                 /\ scrape_logs[i].properties_count = Len(finished.batch)
                 /\ finished.orch = "base" =>
                       /\ i = Len(scrape_logs)
                       /\ Len(scrape_logs) = Len(finished.s_logs) + 1)
    /\ [][scrape_logs' # scrape_logs =>
             /\ properties' = properties
             /\ property_changes' = property_changes
             /\ \E w \in Workers : run[w].pc = "stored" /\ run'[w].pc = "idle"]_vars

\* C19: when scrape() raises, the run reconciles nothing, the snapshot and the
\* change log stay as they were, and the ledger gains one entry of status
\* 'failure'; every run that ended, however it ended, left a ledger entry.
C19_ScrapeFailureLeavesFailureEntry ==
    /\ finished.outcome = "scrape_failed" =>
          /\ finished.k = 0
          /\ ~finished.stored
          /\ properties = finished.s_props
          /\ property_changes = finished.s_changes
          /\ Len(scrape_logs) = Len(finished.s_logs) + 1
          /\ scrape_logs[Len(scrape_logs)].source = finished.source
          /\ scrape_logs[Len(scrape_logs)].status = "failure"
    /\ finished.outcome # "none" => Len(scrape_logs) > Len(finished.s_logs)

\* C20: when a store operation raises while insert_properties is processing the
\* k-th record, for any k, the snapshot and the change log are as they were when
\* the run started.
C20_FailureLeavesNoPartialWrite ==
    finished.outcome \in {"lookup_failed", "write_failed"} =>
        /\ properties = finished.s_props
        /\ property_changes = finished.s_changes

FailureReturn(orch) == IF orch = "app" THEN "False" ELSE "None"

\* C21: when an insert or update of a row raises, insert_properties does not
\* return: BaseScraper.run returns (None, message) and the ledger gains no
\* entry, run_scraper returns False and leaves the state 'failed'; and a run
\* that reports success has a row for every record of its batch.
C21_WriteFailureIsReported ==
    /\ [][\A w \in Workers :
             (run[w].pc \in {"update", "insert"} /\ faults' < faults) =>
                 /\ run'[w].pc = "idle"
                 /\ ~finished'.stored
                 /\ finished'.ret = FailureReturn(run[w].orch)
                 /\ scrape_logs' = scrape_logs
                 /\ properties' = properties
                 /\ run[w].orch = "app" => scraper_status'[run[w].source] = "failed"]_vars
    /\ [](finished.ret \in {"results", "True"} =>
             /\ finished.stored
             /\ \A i \in 1..Len(finished.batch) :
                   \E id \in 1..Len(properties) :
                       /\ properties[id].source = finished.source
                       /\ properties[id].address = finished.batch[i].address
                       /\ properties[id].floor_suite = finished.batch[i].floor_suite)

C21_Witness ==
    /\ finished.outcome = "write_failed"
    /\ finished.orch = "app"
    /\ finished.k = 2
    /\ properties # finished.s_props
    /\ scraper_status[finished.source] = "failed"

\* C22: when the insert into property_changes raises for a record, the run goes
\* on: nothing is appended, the row of the record is then updated to the
\* record's values, and insert_properties moves to the next record or returns.
C22_ChangeLogFailureIsNotFatal ==
    /\ [][\A w \in Workers :
             /\ (run[w].pc = "log_changes" /\ faults' < faults) =>
                   /\ run'[w].pc = "update"
                   /\ run'[w].k = run[w].k
                   /\ property_changes' = property_changes
                   /\ properties' = properties
                   /\ finished' = finished
             /\ (run[w].pc = "update" /\ run[w].log_failed /\ faults' = faults) =>
                   /\ \A field \in RawFields :
                         properties'[run[w].old[1].id][field] = Prop(w)[field]
                   /\ run'[w].pc = IF run[w].k < Len(run[w].batch) THEN "lookup"
                                   ELSE run'[w].pc
                   /\ run'[w].pc \in {"lookup", "stored"}]_vars
    /\ [](step.log_failed =>
             /\ step.kind = "update"
             /\ step.appended = <<>>
             /\ \A field \in RawFields : WrittenRow[field] = step.prop[field])

\* The first record's entry was lost, the second record was still inserted, and
\* the run was logged as a success.
C22_Witness ==
    /\ finished.outcome = "success"
    /\ finished.k = 2
    /\ faults = 0
    /\ property_changes = <<>>
    /\ Len(scrape_logs) = 2
    /\ step.kind = "insert"
    /\ \E id \in 1..Len(properties) :
          /\ properties[id].price = finished.batch[1].price
          /\ properties[id].address = finished.batch[1].address
          /\ properties[id].price # finished.s_props[id].price

\* The source of the run in which worker w takes a step.
Acting(w) == IF run[w].source = "none" THEN run'[w].source ELSE run[w].source

\* C23: a step of a run for one source leaves every row of the other source as
\* it is, reads no row of the other source (the row its select returns is of its
\* own source, and it inserts only when its own source has no row of that
\* address and floor), and appends rows, FieldChanges and ledger entries of its
\* own source only; a call of compare_and_save_results for one source leaves the
\* other source's current.json as it is and reports as removed records of its
\* own file only. This holds however the runs of the two sources interleave.
C23_SourceIsolation ==
    /\ [][\A w \in Workers :
             run'[w] # run[w] =>
                 LET s == Acting(w)
                 IN  /\ Len(properties') >= Len(properties)
                     /\ \A id \in 1..Len(properties) :
                           properties[id].source # s => properties'[id] = properties[id]
                     /\ \A id \in (Len(properties) + 1)..Len(properties') :
                           properties'[id].source = s
                     /\ \A i \in (Len(property_changes) + 1)..Len(property_changes') :
                           /\ property_changes'[i].source = s
                           /\ properties[property_changes'[i].property_id].source = s
                     /\ \A i \in (Len(scrape_logs) + 1)..Len(scrape_logs') :
                           scrape_logs'[i].source = s
                     /\ run'[w].old # NoRow => run'[w].old[1].source = s
                     /\ (run[w].pc = "lookup" /\ run'[w].pc = "insert") =>
                           \A id \in 1..Len(properties) :
                               properties[id].source = s =>
                                   \/ properties[id].address # Prop(w).address
                                   \/ properties[id].floor_suite # Prop(w).floor_suite
                     /\ (run[w].pc = "lookup" /\ run'[w].pc \in {"update", "log_changes"}) =>
                           /\ run'[w].old[1].address = Prop(w).address
                           /\ run'[w].old[1].floor_suite = Prop(w).floor_suite]_vars
    /\ [][call' # call =>
             /\ \A t \in Sources \ {call'.source} : files'[t] = files[t]
             /\ call'.kind = "returned" =>
                   /\ call'.prev = files[call'.source].data
                   /\ \A r \in 1..Len(call'.changes.removed) :
                         InSeq(call'.changes.removed[r], files[call'.source].data)]_vars

\* A run for "cbre" has inserted a row for a listing while "jll" holds a row of
\* the same address and floor, and a run for "jll" is in the middle of its batch.
C23_Witness ==
    /\ step.kind = "insert"
    /\ step.source = "cbre"
    /\ \E id \in 1..Len(step.before) :
          /\ step.before[id].source = "jll"
          /\ step.before[id].address = step.prop.address
          /\ step.before[id].floor_suite = step.prop.floor_suite
    /\ \E w \in Workers : run[w].source = "jll" /\ run[w].pc \in {"lookup", "insert", "update"}

\* Record j is the last of several records of the batch with its identity key.
LastOfDuplicates(batch, j) ==
    /\ \E i \in 1..(j - 1) : IdentityKey(batch[i]) = IdentityKey(batch[j])
    /\ \A l \in (j + 1)..Len(batch) : IdentityKey(batch[l]) # IdentityKey(batch[j])

\* C24: when several records of a batch have the same identity key, the last of
\* them is the one that counts. compare_and_save_results saves one record for
\* the key, the last, and every entry it returns for the key is the last;
\* insert_properties leaves the row of the key with the values of the last, and
\* the FieldChanges the run appended for the row start from the values the row
\* had before the run (none when the row is new).
C24_LastDuplicateWins ==
    /\ call.kind = "returned" =>
          \A j \in 1..Len(call.batch) :
              LastOfDuplicates(call.batch, j) =>
                  LET SameKey(r) == IdentityKey(r) = IdentityKey(call.batch[j])
                      Last(r) == SameKey(r) => Raw(r) = call.batch[j]
                  IN  /\ CountIn(GetCurrentResults(call.source), SameKey) = 1
                      /\ \A i \in 1..Len(GetCurrentResults(call.source)) :
                            Last(GetCurrentResults(call.source)[i])
                      /\ \A i \in 1..Len(call.changes.new) : Last(call.changes.new[i])
                      /\ \A i \in 1..Len(call.changes.modified) :
                            Last(call.changes.modified[i])
    /\ finished.stored =>
          \A j \in 1..Len(finished.batch) :
              LastOfDuplicates(finished.batch, j) =>
                  \A id \in 1..Len(properties) :
                      (/\ properties[id].source = finished.source
                       /\ properties[id].address = finished.batch[j].address
                       /\ properties[id].floor_suite = finished.batch[j].floor_suite) =>
                          /\ \A field \in RawFields :
                                properties[id][field] = finished.batch[j][field]
                          /\ \A c \in (Len(finished.s_changes) + 1)..Len(property_changes) :
                                property_changes[c].property_id = id =>
                                    /\ id <= Len(finished.s_props)
                                    /\ property_changes[c].old_value =
                                          Str(finished.s_props[id][property_changes[c].field_name])
                                    /\ property_changes[c].new_value =
                                          Str(finished.batch[j][property_changes[c].field_name])

\* Ledger entries of a source with status 'success'.
Successes(source) ==
    {i \in 1..Len(scrape_logs) :
        scrape_logs[i].source = source /\ scrape_logs[i].status = "success"}

\* C25: get_changes_since_last_scrape(source) returns, with t the created_at of
\* the latest 'success' entry of the source in the ledger, as 'new' exactly the
\* rows of the source with created_at later than t and as 'modified' exactly the
\* FieldChanges of the source with modified_at later than t, each once; it
\* returns two empty lists when the source has no entry.
C25_ChangesSinceLastSuccess ==
    [][run' = run =>
          LET source == answer'.source
              later(t) == {id \in 1..Len(properties) :
                              /\ properties[id].source = source
                              /\ properties[id].created_at > t}
              changed(t) == {c \in 1..Len(property_changes) :
                                /\ property_changes[c].source = source
                                /\ property_changes[c].modified_at > t}
          IN  /\ source \in Sources
              /\ Successes(source) = {} =>
                    answer'.new = <<>> /\ answer'.modified = <<>>
              /\ \A i \in Successes(source) :
                    (\A j \in Successes(source) :
                         scrape_logs[j].created_at <= scrape_logs[i].created_at) =>
                        LET t == scrape_logs[i].created_at
                        IN  /\ Len(answer'.new) = Cardinality(later(t))
                            /\ \A id \in later(t) : InSeq(properties[id], answer'.new)
                            /\ Len(answer'.modified) = Cardinality(changed(t))
                            /\ \A c \in changed(t) :
                                  InSeq(property_changes[c], answer'.modified)]_vars

\* A query after a logged run and a later run that inserted a row and changed
\* another: it returns the new row and the change.
C25_Witness ==
    /\ answer.source = "cbre"
    /\ answer.new # <<>>
    /\ answer.modified # <<>>
    /\ Len(scrape_logs) = 1

Ended == retry.pc \in {"returned", "raised"}

\* C26: a call of a function wrapped by with_retry(max_retries, delay, backoff)
\* invokes the function at most max_retries times; it returns the result of the
\* first attempt that does not raise and makes no attempt after it; when all
\* max_retries attempts raise it raises the exception of the last; after failed
\* attempt k it sleeps delay * backoff^k, except after the last of max_retries;
\* and the call ends.
C26_BoundedRetry ==
    /\ [](/\ retry.calls <= retry.max_retries
          /\ retry.calls = Len(retry.outcomes)
          /\ \A k \in 1..Len(retry.slept) :
                /\ retry.slept[k] = retry.delay * Pow(retry.backoff, k - 1)
                /\ k <= retry.calls
                /\ retry.outcomes[k] = "raised"
                /\ k < retry.max_retries
          /\ retry.pc = "returned" =>
                /\ retry.calls >= 1
                /\ retry.outcomes[retry.calls] = "returned"
                /\ \A k \in 1..(retry.calls - 1) : retry.outcomes[k] = "raised"
                /\ retry.result = ResultOf(retry.calls - 1)
                /\ Len(retry.slept) = retry.calls - 1
          /\ retry.pc = "raised" =>
                /\ retry.calls = retry.max_retries
                /\ \A k \in 1..retry.calls : retry.outcomes[k] = "raised"
                /\ retry.max_retries > 0 =>
                      /\ retry.raised = ErrorOf(retry.max_retries - 1)
                      /\ Len(retry.slept) = retry.max_retries - 1)
    /\ [][Ended => retry' = retry]_vars
    /\ (retry.pc = "loop") ~> Ended

\* The wrapper returned the result of its third attempt, after two sleeps.
C26_Witness ==
    /\ retry.pc = "returned"
    /\ retry.calls = 3
    /\ retry.slept = <<2, 6>>

\* A run of run_scraper for s executes, or the thread that will execute it has
\* been asked for.
Running(s) ==
    \/ InFlight(s) # {}
    \/ \E w \in Workers : run[w].pc = "spawned" /\ run[w].source = s
    \/ \E h \in Handlers : req[h].pc = "start" /\ req[h].source = s

\* C27: the state of a source is 'running' exactly while a run_scraper of the
\* source is in flight, so it is never 'completed' or 'failed' while one still
\* executes; trigger_scraper refuses, and starts no thread, exactly when the
\* state is 'running'; a run_scraper that returns leaves 'completed' when
\* insert_properties returned for a non-empty batch and 'failed' otherwise.
C27_RunningWhileInFlight ==
    /\ [](\A s \in Sources :
             /\ InFlight(s) # {} => scraper_status[s] = "running"
             /\ scraper_status[s] = "running" => Running(s))
    /\ [][\A h \in Handlers :
             (req[h].pc = "idle" /\ req'[h] # req[h]) =>
                 /\ run' = run
                 /\ (req'[h].response = "400") = (scraper_status[req'[h].source] = "running")
                 /\ (req'[h].pc = "set") = (scraper_status[req'[h].source] # "running")]_vars
    /\ [][\A w \in Workers :
             (run[w].orch = "app" /\ run'[w].pc = "idle") =>
                 /\ scraper_status'[run[w].source] \in {"completed", "failed"}
                 /\ (scraper_status'[run[w].source] = "completed") =
                       (run[w].pc = "stored" /\ run[w].batch # <<>>)]_vars

\* The entries of the change log that the run of worker w wrote for a field of
\* the row it updates.
WrittenBy(w, field) ==
    {c \in 1..Len(property_changes) :
        /\ property_changes[c].property_id = run[w].old[1].id
        /\ property_changes[c].field_name = field
        /\ property_changes[c].modified_at = run[w].now}

\* C28: when a run's update takes a monitored field of a row from v to w, the
\* change log holds exactly one entry (v -> w) of that run for the field, and
\* when the update leaves the field as it was the run has written no entry for
\* it; the update writes every field of the record, so the row holds the values
\* of one batch. This holds however the steps of two runs of a source interleave.
C28_EachTransitionLoggedOnce ==
    [][\A w \in Workers :
          (run[w].pc = "update" /\ properties' # properties) =>
              LET id == run[w].old[1].id
              IN  /\ \A field \in RawFields : properties'[id][field] = Prop(w)[field]
                  /\ \A field \in Monitored :
                        IF properties[id][field] # properties'[id][field]
                        THEN /\ Cardinality(WrittenBy(w, field)) = 1
                             /\ \A c \in WrittenBy(w, field) :
                                   /\ property_changes[c].old_value = Str(properties[id][field])
                                   /\ property_changes[c].new_value = Str(properties'[id][field])
                        ELSE WrittenBy(w, field) = {}]_vars

\* The FieldChanges of one row and field, in the order of the change log.
EntriesOf(id, field) ==
    SelectSeq(property_changes,
              LAMBDA change : change.property_id = id /\ change.field_name = field)

\* For every row and monitored field with a FieldChange: the latest entry's
\* new_value is what the row holds, and each entry starts where the one before
\* it ended.
LogAgreesWithSnapshot ==
    \A id \in 1..Len(properties), field \in Monitored :
        LET entries == EntriesOf(id, field)
        IN  entries # <<>> =>
                /\ entries[Len(entries)].new_value = Str(properties[id][field])
                /\ \A i \in 2..Len(entries) :
                      entries[i].old_value = entries[i - 1].new_value

C30_SavedStatusAgreesWithChanges ==
    call.kind = "returned" =>
        \A i \in 1..Len(GetCurrentResults(call.source)) :
            LET saved == GetCurrentResults(call.source)[i]
            IN  /\ saved.status \in {"new", "modified", "unchanged"}
                /\ InSeq(saved, call.changes.new) = (saved.status = "new")
                /\ InSeq(saved, call.changes.modified) = (saved.status = "modified")

====
